---- MODULE Spec2Model ----
(***************************************************************************)
(* The HTTP client transport pipeline of clients/httpclient: the           *)
(* middleware composer (configMiddlewares), the cache middleware            *)
(* (NewCacheMiddleware and its helpers) and the circuit breaker middleware  *)
(* (NewCircuitBreakerMiddleware over sony/gobreaker).                       *)
(*                                                                         *)
(* Strings are sequences of one-character strings, so that formatting,     *)
(* joining, sorting and the max-age regular expression are computed the    *)
(* way the Go code computes them.  time.Duration is counted in             *)
(* milliseconds.  SHA-256 is taken to be injective: a cache key is the     *)
(* string handed to the digest.                                            *)
(***************************************************************************)
EXTENDS Integers, Sequences, FiniteSets, TLC

(***************************************************************************)
(* Bounds of the model.                                                    *)
(***************************************************************************)
\* requests in flight at once (goroutines calling RoundTrip)
NumReq == 2
\* calls beyond the breaker's minimum sample that the breaker runs make
WindowSlack == 1

(***************************************************************************)
(* Program constants.                                                      *)
(***************************************************************************)
\* gobreaker.Settings.MaxRequests
MaxRequests == 10
\* ReadyToTrip: total >= 20
MinRequests == 20
\* ReadyToTrip: failures*100/total >= 50
FailurePercent == 50
\* milliseconds in time.Second
Second == 1000

(***************************************************************************)
(* Strings.                                                                *)
(***************************************************************************)
Digits == <<"0", "1", "2", "3", "4", "5", "6", "7", "8", "9">>

IsDigit(c) == \E i \in 1..10 : Digits[i] = c

DigitVal(c) == (CHOOSE i \in 1..10 : Digits[i] = c) - 1

\* the characters the model uses, in byte order (sort.Strings compares bytes)
Alphabet ==
  <<" ", "&", "+", ",", "-", ".", "/", "0", "1", "2", "3", "4", "5", "6", "7",
    "8", "9", ":", "=", "?", "A", "B", "a", "b", "c", "e", "g", "i", "l", "m",
    "n", "o", "p", "q", "s", "t", "u", "x", "y", "z", "|">>

Ord(c) == CHOOSE i \in 1..Len(Alphabet) : Alphabet[i] = c

\* s < t in byte order
RECURSIVE StrLess(_, _)
StrLess(s, t) ==
  IF t = <<>> THEN FALSE
  ELSE IF s = <<>> THEN TRUE
  ELSE IF Head(s) = Head(t) THEN StrLess(Tail(s), Tail(t))
  ELSE Ord(Head(s)) < Ord(Head(t))

\* strings.Join
RECURSIVE Join(_, _)
Join(parts, sep) ==
  IF parts = <<>> THEN <<>>
  ELSE IF Len(parts) = 1 THEN parts[1]
  ELSE parts[1] \o sep \o Join(Tail(parts), sep)

\* sort.Strings of the strings of a set, each listed mult[s] times
RECURSIVE SortBag(_, _)
SortBag(S, mult) ==
  IF S = {} THEN <<>>
  ELSE LET m == CHOOSE x \in S : \A y \in S : y = x \/ StrLess(x, y)
       IN  [i \in 1..mult[m] |-> m] \o SortBag(S \ {m}, mult)

\* sort.Strings
SortStrings(seq) ==
  LET S == {seq[i] : i \in 1..Len(seq)}
  IN  SortBag(S, [s \in S |-> Cardinality({i \in 1..Len(seq) : seq[i] = s})])

\* strconv.Itoa, and %v of an int
RECURSIVE Itoa(_)
Itoa(n) ==
  IF n < 10 THEN <<Digits[n + 1]>>
  ELSE Itoa(n \div 10) \o <<Digits[(n % 10) + 1]>>

\* strconv.Atoi of a run of digits
RECURSIVE Atoi(_)
Atoi(s) ==
  IF s = <<>> THEN 0
  ELSE 10 * Atoi(SubSeq(s, 1, Len(s) - 1)) + DigitVal(s[Len(s)])

RECURSIVE TrimZeros(_)
TrimZeros(s) ==
  IF s # <<>> /\ s[Len(s)] = "0" THEN TrimZeros(SubSeq(s, 1, Len(s) - 1))
  ELSE s

\* the digit i places after the first digit of d, "0" outside d
DigitAt(d, i) == IF i >= 1 /\ i <= Len(d) THEN d[i] ELSE "0"

\* fmt's %v of the float64 d.Seconds(), d in milliseconds: strconv's 'g'
\* format with the shortest digits, which switches to the exponent form
\* when the decimal exponent is < -4 or >= 6
FormatSeconds(d) ==
  IF d = 0 THEN <<"0">>
  ELSE
    LET all  == Itoa(d)
        dp   == Len(all) - 3
        digs == TrimZeros(all)
        nd   == Len(digs)
        exp  == dp - 1
        prec == IF nd > dp THEN nd - dp ELSE 0
        ae   == IF exp < 0 THEN 0 - exp ELSE exp
    IN  IF exp < -4 \/ exp >= 6
        THEN <<digs[1]>>
             \o (IF nd > 1 THEN <<".">> \o SubSeq(digs, 2, nd) ELSE <<>>)
             \o <<"e", IF exp < 0 THEN "-" ELSE "+">>
             \o (IF ae < 10 THEN <<"0">> ELSE <<>>) \o Itoa(ae)
        ELSE (IF dp > 0 THEN [i \in 1..dp |-> DigitAt(digs, i)] ELSE <<"0">>)
             \o (IF prec > 0
                 THEN <<".">> \o [i \in 1..prec |-> DigitAt(digs, dp + i)]
                 ELSE <<>>)

MaxAgeEq == <<"m", "a", "x", "-", "a", "g", "e", "=">>

PublicSuffix == <<",", " ", "p", "u", "b", "l", "i", "c">>

\* the regular expression max-age=(\d+) matches at position i
MaxAgeAt(s, i) ==
  /\ i + 8 <= Len(s)
  /\ SubSeq(s, i, i + 7) = MaxAgeEq
  /\ IsDigit(s[i + 8])

\* the end of the longest run of digits starting at position i
RECURSIVE DigitsEnd(_, _)
DigitsEnd(s, i) ==
  IF i + 1 <= Len(s) /\ IsDigit(s[i + 1]) THEN DigitsEnd(s, i + 1) ELSE i

\* getCacheControlHeaderValue, of the Cache-Control value v
ParseMaxAge(v) ==
  IF \E i \in 1..Len(v) : MaxAgeAt(v, i)
  THEN LET i == CHOOSE j \in 1..Len(v) :
                  MaxAgeAt(v, j) /\ \A k \in 1..(j - 1) : ~MaxAgeAt(v, k)
       IN  Atoi(SubSeq(v, i + 8, DigitsEnd(v, i + 8)))
  ELSE 0

(***************************************************************************)
(* Requests.  A URL is a path and the raw query, the list of its           *)
(* name=value pairs in the order written; hdr maps a header name to its    *)
(* value, the empty string when the request does not carry the header.     *)
(***************************************************************************)
HeaderA == <<"A">>

HeaderB == <<"B">>

HeaderNames == {HeaderA, HeaderB}

NoHeaders == [h \in HeaderNames |-> <<>>]

\* one name=value pair of a query string
Pair(k, v) == [k |-> k, v |-> v]

PairString(q) == q.k \o <<"=">> \o q.v

\* url.URL.String(): the path, then "?" and the raw query as it was written
URLString(u) ==
  IF u.query = <<>> THEN u.path
  ELSE u.path \o <<"?">>
       \o Join([i \in 1..Len(u.query) |-> PairString(u.query[i])], <<"&">>)

\* url.URL.Query(): each parameter name with its values in order of appearance
QueryNames(u) == {u.query[i].k : i \in 1..Len(u.query)}

RECURSIVE ValuesOf(_, _)
ValuesOf(query, k) ==
  IF query = <<>> THEN <<>>
  ELSE (IF Head(query).k = k THEN <<Head(query).v>> ELSE <<>>)
       \o ValuesOf(Tail(query), k)

buildURLPart(r) == URLString(r.url)

\* one "k=v1,v2" part per parameter name, its values sorted; the parts sorted
buildQueryPart(r) ==
  LET part(k) == k \o <<"=">> \o Join(SortStrings(ValuesOf(r.url.query, k)), <<",">>)
      parts   == {part(k) : k \in QueryNames(r.url)}
  IN  Join(SortBag(parts, [s \in parts |-> 1]), <<"&">>)

\* "name:value" for each configured header the request carries, joined by "|"
RECURSIVE VaryParts(_, _)
VaryParts(r, headers) ==
  IF headers = <<>> THEN <<>>
  ELSE (IF r.hdr[Head(headers)] # <<>>
        THEN <<Head(headers) \o <<":">> \o r.hdr[Head(headers)]>>
        ELSE <<>>)
       \o VaryParts(r, Tail(headers))

buildVaryHeadersPart(r, headers) == Join(VaryParts(r, headers), <<"|">>)

\* the string handed to sha256.Sum256 (the digest is taken to be injective)
getCacheKey(r, headers) ==
  Join(<<buildURLPart(r), buildQueryPart(r), buildVaryHeadersPart(r, headers)>>,
       <<"|">>)

(***************************************************************************)
(* Responses and errors.                                                   *)
(***************************************************************************)
NoResp == [nil |-> TRUE]

NoErr == [kind |-> "nil"]

\* a failure of the base transport (connection refused, timeout, ...)
TransportErr == [kind |-> "transport"]

\* gobreaker.ErrOpenState and gobreaker.ErrTooManyRequests
ErrOpenState == [kind |-> "open"]

ErrTooManyRequests == [kind |-> "too-many"]

\* &HTTPStatusError{Status: status}
HTTPStatusError(status) == [kind |-> "http-status", status |-> status]

\* the error handed on as it is, without a new error around it
WrappedAsIs(msg, e) == e

\* fmt.Errorf(msg + ": %w", e)
Wrapped(msg, e) == [kind |-> "wrapped", msg |-> msg, inner |-> e]

MaxAge60 == MaxAgeEq \o <<"6", "0">>

\* a response of the network: cc is its Cache-Control value and xcache its
\* X-Cache value (empty when absent); readable tells whether io.ReadAll of
\* the body succeeds
Response(code, cc, readable) ==
  [code |-> code, status |-> Itoa(code), proto |-> "HTTP/1.1", cc |-> cc,
   xcache |-> "", body |-> "json", readable |-> readable]

\* what one round trip of http.DefaultTransport may give
Upstream ==
  {[resp |-> Response(200, <<>>, TRUE), err |-> NoErr],
   [resp |-> Response(200, MaxAge60, TRUE), err |-> NoErr],
   [resp |-> Response(200, <<>>, FALSE), err |-> NoErr],
   [resp |-> [Response(404, MaxAge60, TRUE) EXCEPT !.xcache = "cdn"], err |-> NoErr],
   [resp |-> Response(429, <<>>, TRUE), err |-> NoErr],
   [resp |-> Response(500, <<>>, TRUE), err |-> NoErr],
   [resp |-> NoResp, err |-> TransportErr]}

(***************************************************************************)
(* configMiddlewares: the composed transport is the list of the layers a   *)
(* request passes, outermost first, ending with the base transport.        *)
(***************************************************************************)
DefaultTransport == <<"transport">>

\* a nil entry of the middleware list
NilMiddleware == "nil"

\* the outcome of a composition that panicked
Panic == <<"panic">>

\* a composer that passes over a nil entry
WrapSkipNil(m, next) == IF m = NilMiddleware THEN next ELSE <<m>> \o next

\* middleware m applied to the transport next: m runs, then delegates to
\* next; calling a nil function value panics
Wrap(m, next) == IF m = NilMiddleware THEN Panic ELSE <<m>> \o next

RECURSIVE ComposeFrom(_, _, _)
ComposeFrom(mws, i, composed) ==
  IF i < 1 \/ composed = Panic THEN composed
  ELSE ComposeFrom(mws, i - 1, Wrap(mws[i], composed))

\* the loop run from the first middleware to the last: the last is outermost
RECURSIVE ComposeForward(_, _, _)
ComposeForward(mws, i, composed) ==
  IF i > Len(mws) \/ composed = Panic THEN composed
  ELSE ComposeForward(mws, i + 1, Wrap(mws[i], composed))

configMiddlewaresForward(mws) == ComposeForward(mws, 1, DefaultTransport)

\* for i := len(middlewares) - 1; i >= 0; i-- { composed = middlewares[i](composed) }
configMiddlewares(mws) == ComposeFrom(mws, Len(mws), DefaultTransport)

(***************************************************************************)
(* sony/gobreaker, as NewCircuitBreakerMiddleware configures it.  elapsed  *)
(* tells whether the breaker's expiry lies before now.                     *)
(***************************************************************************)
\* CircuitBreaker.toNewGeneration
toNewGeneration(cb) ==
  [cb EXCEPT !.generation = @ + 1, !.requests = 0, !.totalFailures = 0,
             !.consecutiveSuccesses = 0]

\* a breaker that starts out open
NewCircuitBreakerOpen ==
  toNewGeneration([state |-> "open", generation |-> 0, requests |-> 0,
                   totalFailures |-> 0, consecutiveSuccesses |-> 0])

\* gobreaker.NewCircuitBreaker
NewCircuitBreaker ==
  toNewGeneration([state |-> "closed", generation |-> 0, requests |-> 0,
                   totalFailures |-> 0, consecutiveSuccesses |-> 0])

\* CircuitBreaker.setState
setState(cb, state) ==
  IF cb.state = state THEN cb ELSE toNewGeneration([cb EXCEPT !.state = state])

\* CircuitBreaker.currentState
currentState(cb, elapsed) ==
  IF cb.state = "closed" /\ elapsed THEN toNewGeneration(cb)
  ELSE IF cb.state = "open" /\ elapsed THEN setState(cb, "half-open")
  ELSE cb

\* Settings.ReadyToTrip
ReadyToTrip(requests, totalFailures) ==
  requests >= MinRequests /\ (totalFailures * 100) \div requests >= FailurePercent

\* a classification that takes status 429 for a success
IsSuccessfulBelow500(e) ==
  IF e = NoErr THEN TRUE
  ELSE IF e.kind = "http-status" THEN e.status < 500
  ELSE FALSE

\* Settings.IsSuccessful
IsSuccessful(e) ==
  IF e = NoErr THEN TRUE
  ELSE IF e.kind = "http-status" THEN e.status < 500 /\ e.status # 429
  ELSE FALSE

\* CircuitBreaker.beforeRequest: the breaker, the generation and the error
beforeRequest(cb, elapsed) ==
  LET c == currentState(cb, elapsed)
  IN  IF c.state = "open"
      THEN [cb |-> c, generation |-> c.generation, err |-> ErrOpenState]
      ELSE IF c.state = "half-open" /\ c.requests >= MaxRequests
      THEN [cb |-> c, generation |-> c.generation, err |-> ErrTooManyRequests]
      ELSE [cb |-> [c EXCEPT !.requests = @ + 1], generation |-> c.generation,
            err |-> NoErr]

\* CircuitBreaker.onSuccess
onSuccess(cb) ==
  LET c == [cb EXCEPT !.consecutiveSuccesses = @ + 1]
  IN  IF c.state = "half-open" /\ c.consecutiveSuccesses >= MaxRequests
      THEN setState(c, "closed")
      ELSE c

\* CircuitBreaker.onFailure
onFailure(cb) ==
  LET c == [cb EXCEPT !.totalFailures = @ + 1, !.consecutiveSuccesses = 0]
  IN  IF c.state = "closed"
      THEN IF ReadyToTrip(c.requests, c.totalFailures) THEN setState(c, "open") ELSE c
      ELSE IF c.state = "half-open" THEN setState(c, "open")
      ELSE c

\* CircuitBreaker.afterRequest
afterRequest(cb, before, success, elapsed) ==
  LET c == currentState(cb, elapsed)
  IN  IF c.generation # before THEN c
      ELSE IF success THEN onSuccess(c) ELSE onFailure(c)

\* a callback that hands on whatever next.RoundTrip returned
ExecuteCallbackAsIs(r, e) == [resp |-> r, err |-> e]

\* the callback handed to breaker.Execute, given what next.RoundTrip returned
ExecuteCallback(r, e) ==
  IF e # NoErr THEN [resp |-> NoResp, err |-> e]
  ELSE IF r.code >= 500 \/ r.code = 429
  THEN [resp |-> NoResp, err |-> HTTPStatusError(r.code)]
  ELSE [resp |-> r, err |-> NoErr]

(***************************************************************************)
(* The cache middleware's helpers.                                         *)
(***************************************************************************)
\* a stored value json.Unmarshal rejects
Garbage == [garbage |-> TRUE]

NoRecord == [nil |-> TRUE]

\* json.Marshal of a Go string: bytes that are not valid UTF-8 are replaced
ToValidUTF8(body) == IF body = "binary" THEN "replaced" ELSE body

\* a record whose cacheControlValue is taken from the policy
responseToJSONPolicyAge(r, policy) ==
  IF ~r.readable
  THEN [value |-> NoRecord, err |-> Wrapped("failed to read response body", [kind |-> "read"])]
  ELSE [value |-> [status |-> r.status, statusCode |-> r.code, proto |-> r.proto,
                   header |-> [cc |-> r.cc, xcache |-> r.xcache],
                   body |-> ToValidUTF8(r.body),
                   cacheControlValue |-> policy.maxAge,
                   policy |-> policy],
        err |-> NoErr]

\* responseToJSON: the SerializableCache record, or the read error
responseToJSON(r, policy) ==
  IF ~r.readable
  THEN [value |-> NoRecord, err |-> Wrapped("failed to read response body", [kind |-> "read"])]
  ELSE [value |-> [status |-> r.status, statusCode |-> r.code, proto |-> r.proto,
                   header |-> [cc |-> r.cc, xcache |-> r.xcache],
                   body |-> ToValidUTF8(r.body),
                   cacheControlValue |-> ParseMaxAge(r.cc),
                   policy |-> policy],
        err |-> NoErr]

\* parseCachedResponseFromString
parseCachedResponseFromString(value) ==
  IF value = Garbage
  THEN [rec |-> NoRecord, err |-> Wrapped("failed to unmarshal cached response", [kind |-> "json"])]
  ELSE [rec |-> value, err |-> NoErr]

\* the response the hit path builds from a stored record
HitResponse(rec) ==
  [code |-> rec.statusCode, status |-> rec.status, proto |-> rec.proto,
   cc |-> MaxAgeEq \o Itoa(rec.cacheControlValue) \o PublicSuffix,
   xcache |-> "HIT", body |-> rec.body, readable |-> TRUE]

\* a time to live that takes the configured TTL when the response names none
EffectiveTTLOrDefault(r, c) ==
  IF c.override \/ ParseMaxAge(r.cc) = 0 THEN c.ttl
  ELSE Second * ParseMaxAge(r.cc)

\* the time to live of a 2xx response: the upstream max-age, or the configured
\* TTL when OverrideTTL is set
EffectiveTTL(r, c) == IF c.override THEN c.ttl ELSE Second * ParseMaxAge(r.cc)

\* the 2xx branch of the miss path without resp.Header.Set("X-Cache", "MISS")
MissStoreNoMarker(r, c) ==
  LET responseCacheControl == ParseMaxAge(r.cc)
      ttl       == EffectiveTTL(r, c)
      rewritten == [r EXCEPT !.cc = MaxAgeEq \o FormatSeconds(ttl) \o PublicSuffix]
      policy    == [maxAge |-> responseCacheControl, headers |-> c.headers]
      ser       == responseToJSON(rewritten, policy)
  IN  [resp |-> rewritten, ttl |-> ttl, value |-> ser.value, err |-> ser.err]

\* the 2xx branch of the miss path: the response handed back, the record to
\* store, its expiration and the serialization error
MissStore(r, c) ==
  LET responseCacheControl == ParseMaxAge(r.cc)
      ttl       == EffectiveTTL(r, c)
      rewritten == [r EXCEPT !.cc = MaxAgeEq \o FormatSeconds(ttl) \o PublicSuffix]
      policy    == [maxAge |-> responseCacheControl, headers |-> c.headers]
      ser       == responseToJSON(rewritten, policy)
  IN  [resp |-> [rewritten EXCEPT !.xcache = "MISS"], ttl |-> ttl,
       value |-> ser.value, err |-> ser.err]

\* the status check without its upper bound
Is2xxNoUpperBound(r) == r.code >= 200

\* resp.StatusCode >= 200 && resp.StatusCode < 300
Is2xx(r) == r.code >= 200 /\ r.code < 300

(***************************************************************************)
(* State.                                                                  *)
(***************************************************************************)
VARIABLES
  middlewares,  \* the middleware list given to NewHTTPClient
  cfg,          \* the CacheConfig, and the NewHeaderMiddleware header map
  callers,      \* what the callers do: the requests they send, how many at once
  pc,           \* per request: "idle", "in" (going inward), "out", "done", "retired"
  depth,        \* per request: the layer of the composed transport it is in
  req,          \* per request: the *http.Request
  resp,         \* per request: the response travelling outward
  err,          \* per request: the error travelling outward
  cache,        \* per request: the cache middleware's locals (path taken, cacheKey)
  breaker,      \* per request: the breaker NewCircuitBreakerMiddleware made for it
  calls,        \* per request: round trips of the base transport made for it
  store,        \* the key-value store: key -> [val, ttl]
  pending,      \* the detached goroutines that have not called Set yet
  sets,         \* every Set the cache middleware has issued
  window,       \* calls classified by breakers so far, and the failures among them
  fx,           \* the inputs and result of a function applied on its own
  ctx,          \* per request: its context, "live" or "canceled"
  setErr,       \* per request: what Set returned to its goroutine ("none" before)
  got           \* per request: what the store's Get returned ("none": not called)

vars ==
  <<middlewares, cfg, callers, pc, depth, req, resp, err, cache, breaker, calls,
    store, pending, sets, window, fx, ctx, setErr, got>>

Procs == 1..NumReq

NoRequest == [method |-> "none"]

NoBreaker == [state |-> "none"]

Path(c) == <<"/", c>>

Request(method, path, query, hdr) ==
  [method |-> method, url |-> [path |-> path, query |-> query], hdr |-> hdr]

GetA == Request("GET", Path("a"), <<>>, NoHeaders)

PostA == Request("POST", Path("a"), <<>>, NoHeaders)

\* the layer request p is in
Kind(p) == configMiddlewares(middlewares)[depth[p]]

\* the requests inside the transport, and those whose caller is still busy
InFlight == {p \in Procs : pc[p] \in {"in", "out"}}

Busy == {p \in Procs : pc[p] \in {"in", "out", "done"}}

\* the empty string
Empty == [empty |-> TRUE]

\* redis Get that hands out the stored value together with its error
GetDespiteError(key, down) ==
  IF key \notin DOMAIN store THEN Empty ELSE store[key].val

\* redis Get: the value, empty when the key is absent or the store is down
Get(key, down) ==
  IF down \/ key \notin DOMAIN store THEN Empty ELSE store[key].val

\* request p's layer hands (r, e) back to the layer around it
Return(p, r, e) ==
  /\ resp' = [resp EXCEPT ![p] = r]
  /\ err' = [err EXCEPT ![p] = e]
  /\ depth' = [depth EXCEPT ![p] = @ - 1]
  /\ pc' = [pc EXCEPT ![p] = IF depth[p] = 1 THEN "done" ELSE "out"]

\* request p's layer calls next.RoundTrip(req)
Descend(p) ==
  /\ depth' = [depth EXCEPT ![p] = @ + 1]
  /\ UNCHANGED <<pc, resp, err>>

Idle ==
  /\ pc = [p \in Procs |-> "idle"]
  /\ depth = [p \in Procs |-> 0]
  /\ req = [p \in Procs |-> NoRequest]
  /\ resp = [p \in Procs |-> NoResp]
  /\ err = [p \in Procs |-> NoErr]
  /\ cache = [p \in Procs |-> [mode |-> "none", key |-> <<>>]]
  /\ breaker = [p \in Procs |-> [cb |-> NoBreaker, generation |-> 0]]
  /\ calls = [p \in Procs |-> 0]
  /\ pending = {}
  /\ sets = {}
  /\ window = [requests |-> 0, failures |-> 0]
  /\ ctx = [p \in Procs |-> "live"]
  /\ setErr = [p \in Procs |-> "none"]
  /\ got = [p \in Procs |-> "none"]

(***************************************************************************)
(* Actions.                                                                *)
(***************************************************************************)
\* a caller hands request r to the client's transport
Start(p) ==
  /\ pc[p] = "idle"
  /\ Cardinality(Busy) < callers.limit
  /\ window.requests + Cardinality(InFlight) < MinRequests + WindowSlack
  /\ \E r \in callers.requests : req' = [req EXCEPT ![p] = r]
  /\ pc' = [pc EXCEPT ![p] = "in"]
  /\ depth' = [depth EXCEPT ![p] = 1]
  /\ UNCHANGED <<middlewares, cfg, callers, resp, err, cache, breaker, calls,
                 store, pending, sets, window, fx, ctx, setErr, got>>

\* NewLoggingMiddleware: start := time.Now(); next.RoundTrip(req)
LoggingIn(p) ==
  /\ pc[p] = "in" /\ Kind(p) = "logging"
  /\ Descend(p)
  /\ UNCHANGED <<middlewares, cfg, callers, req, cache, breaker, calls, store,
                 pending, sets, window, fx, ctx, setErr, got>>

\* NewLoggingMiddleware: log the outcome and return it
LoggingOut(p) ==
  /\ pc[p] = "out" /\ Kind(p) = "logging"
  /\ Return(p, resp[p], err[p])
  /\ UNCHANGED <<middlewares, cfg, callers, req, cache, breaker, calls, store,
                 pending, sets, window, fx, ctx, setErr, got>>

\* a header middleware that forwards the request without setting a header
HeaderInNoSet(p) ==
  /\ pc[p] = "in" /\ Kind(p) = "header"
  /\ Descend(p)
  /\ UNCHANGED <<middlewares, cfg, callers, req, cache, breaker, calls, store,
                 pending, sets, window, fx, ctx, setErr, got>>

\* NewHeaderMiddleware: req.Header.Set for each configured header
HeaderIn(p) ==
  /\ pc[p] = "in" /\ Kind(p) = "header"
  /\ req' = [req EXCEPT ![p].hdr =
               [h \in HeaderNames |-> IF cfg.set[h] # <<>> THEN cfg.set[h] ELSE @[h]]]
  /\ Descend(p)
  /\ UNCHANGED <<middlewares, cfg, callers, cache, breaker, calls, store, pending,
                 sets, window, fx, ctx, setErr, got>>

\* NewHeaderMiddleware: return what next returned
HeaderOut(p) ==
  /\ pc[p] = "out" /\ Kind(p) = "header"
  /\ Return(p, resp[p], err[p])
  /\ UNCHANGED <<middlewares, cfg, callers, req, cache, breaker, calls, store,
                 pending, sets, window, fx, ctx, setErr, got>>

\* a hit whose return statement is missing: the request falls through to the
\* miss path
CacheLookupNoReturn(value) ==
  IF value # Empty
  THEN LET parsed == parseCachedResponseFromString(value)
       IN  IF parsed.err # NoErr
           THEN [mode |-> "fallback", forward |-> TRUE, resp |-> NoResp]
           ELSE [mode |-> "hit", forward |-> TRUE, resp |-> HitResponse(parsed.rec)]
  ELSE [mode |-> "miss", forward |-> TRUE, resp |-> NoResp]

\* what NewCacheMiddleware does with the value Get returned: the path it
\* takes, whether it calls next.RoundTrip, and the response of a hit
CacheLookup(value) ==
  IF value # Empty
  THEN LET parsed == parseCachedResponseFromString(value)
       IN  IF parsed.err # NoErr
           THEN [mode |-> "fallback", forward |-> TRUE, resp |-> NoResp]
           ELSE [mode |-> "hit", forward |-> FALSE, resp |-> HitResponse(parsed.rec)]
  ELSE [mode |-> "miss", forward |-> TRUE, resp |-> NoResp]

\* the bypass without the test of the request method
BypassNoStoreOnly(c, r) == ~c.redis

\* cfg.RedisClient == nil, or req.Method != "GET"
Bypass(c, r) == ~c.redis \/ r.method # "GET"

\* what Get returned: an error, the empty value of an absent key, or a value
GetResult(key, down) ==
  IF down THEN "error" ELSE IF key \notin DOMAIN store THEN "absent" ELSE "value"

\* NewCacheMiddleware up to the call of next.RoundTrip: the bypasses, the
\* lookup, the hit and the fallback on a value that does not deserialize
CacheIn(p) ==
  /\ pc[p] = "in" /\ Kind(p) = "cache"
  /\ IF Bypass(cfg, req[p])
     THEN /\ cache' = [cache EXCEPT ![p].mode = "bypass"]
          /\ Descend(p)
          /\ UNCHANGED got
     ELSE \E down \in BOOLEAN :
            LET cacheKey == getCacheKey(req[p], cfg.headers)
                found    == CacheLookup(Get(cacheKey, down))
            IN  /\ cache' = [cache EXCEPT ![p] = [mode |-> found.mode, key |-> cacheKey]]
                /\ got' = [got EXCEPT ![p] = GetResult(cacheKey, down)]
                /\ IF found.forward THEN Descend(p) ELSE Return(p, found.resp, NoErr)
  /\ UNCHANGED <<middlewares, cfg, callers, req, breaker, calls, store, pending,
                 sets, window, fx, ctx, setErr>>

\* NewCacheMiddleware after next.RoundTrip returned
CacheOut(p) ==
  /\ pc[p] = "out" /\ Kind(p) = "cache"
  /\ IF cache[p].mode \in {"bypass", "fallback"}
     THEN /\ Return(p, resp[p], err[p])
          /\ UNCHANGED <<pending, sets>>
     ELSE IF err[p] # NoErr
     THEN /\ Return(p, resp[p], Wrapped("error executing request", err[p]))
          /\ UNCHANGED <<pending, sets>>
     ELSE IF Is2xx(resp[p])
     THEN LET m == MissStore(resp[p], cfg)
              w == [owner |-> p, key |-> cache[p].key, value |-> m.value, ttl |-> m.ttl]
          IN  IF m.err # NoErr
              THEN /\ Return(p, m.resp, Wrapped("error serializing response for cache", m.err))
                   /\ UNCHANGED <<pending, sets>>
              ELSE /\ Return(p, m.resp, NoErr)
                   /\ pending' = pending \cup {w}
                   /\ sets' = sets \cup {[set |-> w, method |-> req[p].method,
                                          req |-> req[p],
                                          inner |-> [resp |-> resp[p], err |-> err[p]]]}
     ELSE /\ Return(p, resp[p], NoErr)
          /\ UNCHANGED <<pending, sets>>
  /\ UNCHANGED <<middlewares, cfg, callers, req, cache, breaker, calls, store,
                 window, fx, ctx, setErr, got>>

\* what Set may return under the context c: nil, an error of the store, or
\* the context's error once it is canceled
SetResults(c) == IF c = "canceled" THEN {"canceled"} ELSE {"nil", "store"}

\* a Set that leaves an entry already stored under the key as it is
SetCompleteKeepFirst(w) ==
  /\ w \in pending
  /\ pending' = pending \ {w}
  /\ \E e \in SetResults(ctx[w.owner]) :
       /\ setErr' = [setErr EXCEPT ![w.owner] = e]
       /\ store' = IF e = "nil" /\ w.key \notin DOMAIN store
                   THEN [k \in DOMAIN store \cup {w.key} |->
                           IF k = w.key THEN [val |-> w.value, ttl |-> w.ttl]
                           ELSE store[k]]
                   ELSE store
  /\ UNCHANGED <<middlewares, cfg, callers, pc, depth, req, resp, err, cache,
                 breaker, calls, sets, window, fx, ctx, got>>

\* a goroutine that hands the error of Set to the caller of the request
SetCompleteSurfaces(w) ==
  /\ w \in pending
  /\ pending' = pending \ {w}
  /\ \E e \in SetResults(ctx[w.owner]) :
       /\ setErr' = [setErr EXCEPT ![w.owner] = e]
       /\ err' = [err EXCEPT ![w.owner] = IF e = "nil" THEN @ ELSE [kind |-> e]]
       /\ store' = IF e = "nil"
                   THEN [k \in DOMAIN store \cup {w.key} |->
                           IF k = w.key THEN [val |-> w.value, ttl |-> w.ttl]
                           ELSE store[k]]
                   ELSE store
  /\ UNCHANGED <<middlewares, cfg, callers, pc, depth, req, resp, cache,
                 breaker, calls, sets, window, fx, ctx, got>>

\* the goroutine of the miss path: cfg.RedisClient.Set(req.Context(), ...),
\* whose error is logged
SetComplete(w) ==
  /\ w \in pending
  /\ pending' = pending \ {w}
  /\ \E e \in SetResults(ctx[w.owner]) :
       /\ setErr' = [setErr EXCEPT ![w.owner] = e]
       /\ store' = IF e = "nil"
                   THEN [k \in DOMAIN store \cup {w.key} |->
                           IF k = w.key THEN [val |-> w.value, ttl |-> w.ttl]
                           ELSE store[k]]
                   ELSE store
  /\ UNCHANGED <<middlewares, cfg, callers, pc, depth, req, resp, err, cache,
                 breaker, calls, sets, window, fx, ctx, got>>

\* the caller's context ends (cancel, deadline) after it got its response
Cancel(p) ==
  /\ pc[p] = "done"
  /\ ctx[p] = "live"
  /\ ctx' = [ctx EXCEPT ![p] = "canceled"]
  /\ UNCHANGED <<middlewares, cfg, callers, pc, depth, req, resp, err, cache,
                 breaker, calls, store, pending, sets, window, fx, setErr, got>>

\* NewCircuitBreakerMiddleware up to the callback: gobreaker.NewCircuitBreaker,
\* logState, and Execute's beforeRequest
BreakerIn(p) ==
  /\ pc[p] = "in" /\ Kind(p) = "breaker"
  /\ LET b == beforeRequest(NewCircuitBreaker, FALSE)
     IN  /\ breaker' = [breaker EXCEPT ![p] = [cb |-> b.cb, generation |-> b.generation]]
         /\ IF b.err # NoErr THEN Return(p, NoResp, b.err) ELSE Descend(p)
  /\ UNCHANGED <<middlewares, cfg, callers, req, cache, calls, store, pending,
                 sets, window, fx, ctx, setErr, got>>

\* the callback's classification of what next returned, Execute's
\* afterRequest, and the return of NewCircuitBreakerMiddleware
BreakerOut(p) ==
  /\ pc[p] = "out" /\ Kind(p) = "breaker"
  /\ LET out == ExecuteCallback(resp[p], err[p])
     IN  /\ \E elapsed \in BOOLEAN :
               breaker' = [breaker EXCEPT ![p].cb =
                             afterRequest(@, breaker[p].generation,
                                          IsSuccessful(out.err), elapsed)]
         /\ window' = [requests |-> window.requests + 1,
                       failures |-> window.failures
                                    + (IF IsSuccessful(out.err) THEN 0 ELSE 1)]
         /\ Return(p, out.resp, out.err)
  /\ UNCHANGED <<middlewares, cfg, callers, req, cache, calls, store, pending,
                 sets, fx, ctx, setErr, got>>

\* http.DefaultTransport makes the round trip
Transport(p) ==
  /\ pc[p] = "in" /\ Kind(p) = "transport"
  /\ calls' = [calls EXCEPT ![p] = @ + 1]
  /\ \E o \in Upstream : Return(p, o.resp, o.err)
  /\ UNCHANGED <<middlewares, cfg, callers, req, cache, breaker, store, pending,
                 sets, window, fx, ctx, setErr, got>>

\* the caller takes the result and the goroutine serves another request
Recycle(p) ==
  /\ pc[p] = "done"
  /\ pc' = [pc EXCEPT ![p] = "idle"]
  /\ req' = [req EXCEPT ![p] = NoRequest]
  /\ resp' = [resp EXCEPT ![p] = NoResp]
  /\ err' = [err EXCEPT ![p] = NoErr]
  /\ cache' = [cache EXCEPT ![p] = [mode |-> "none", key |-> <<>>]]
  /\ breaker' = [breaker EXCEPT ![p] = [cb |-> NoBreaker, generation |-> 0]]
  /\ calls' = [calls EXCEPT ![p] = 0]
  /\ got' = [got EXCEPT ![p] = "none"]
  /\ UNCHANGED <<middlewares, cfg, callers, depth, store, pending, sets, window, fx,
                 ctx, setErr>>

\* the caller takes the result and sends nothing more
Retire(p) ==
  /\ pc[p] = "done"
  /\ pc' = [pc EXCEPT ![p] = "retired"]
  /\ req' = [req EXCEPT ![p] = NoRequest]
  /\ resp' = [resp EXCEPT ![p] = NoResp]
  /\ err' = [err EXCEPT ![p] = NoErr]
  /\ cache' = [cache EXCEPT ![p] = [mode |-> "none", key |-> <<>>]]
  /\ breaker' = [breaker EXCEPT ![p] = [cb |-> NoBreaker, generation |-> 0]]
  /\ calls' = [calls EXCEPT ![p] = 0]
  /\ got' = [got EXCEPT ![p] = "none"]
  /\ UNCHANGED <<middlewares, cfg, callers, depth, store, pending, sets, window, fx,
                 ctx, setErr>>

(***************************************************************************)
(* Spec: the cache middleware over the base transport, NumReq requests in  *)
(* flight at once.                                                          *)
(***************************************************************************)
NoFx == [op |-> "none"]

CacheConfig(redis, ttl, override) ==
  [redis |-> redis, ttl |-> ttl, override |-> override, headers |-> <<HeaderA>>,
   set |-> [NoHeaders EXCEPT ![HeaderA] = <<"t">>]]

\* no store; a store with the upstream max-age; a store with a 30 s override
Configs ==
  {CacheConfig(FALSE, 0, FALSE), CacheConfig(TRUE, 0, FALSE),
   CacheConfig(TRUE, 30 * Second, TRUE)}

\* the store as the client finds it: empty, or holding under the key of the
\* GET request a value written in another format
Stores ==
  {<<>>}
  \cup {[k \in {getCacheKey(r, <<HeaderA>>)} |-> [val |-> Garbage, ttl |-> 0]] :
          r \in {GetA}}

Init ==
  /\ middlewares = <<"cache">>
  /\ cfg \in Configs
  /\ callers = [limit |-> NumReq, requests |-> {GetA, PostA}]
  /\ store \in Stores
  /\ fx = NoFx
  /\ Idle

Next ==
  \/ \E p \in Procs : Start(p)
  \/ \E p \in Procs : CacheIn(p)
  \/ \E p \in Procs : Transport(p)
  \/ \E p \in Procs : CacheOut(p)
  \/ \E w \in pending : SetComplete(w)

Spec == Init /\ [][Next]_vars

(***************************************************************************)
(* SpecBreaker: the circuit breaker middleware over the base transport,    *)
(* the callers sending one request after another, NumReq at once.          *)
(***************************************************************************)
InitBreaker ==
  /\ middlewares = <<"breaker">>
  /\ cfg = CacheConfig(FALSE, 0, FALSE)
  /\ callers = [limit |-> NumReq, requests |-> {GetA}]
  /\ store = <<>>
  /\ fx = NoFx
  /\ Idle

NextBreaker ==
  \/ \E p \in Procs : Start(p)
  \/ \E p \in Procs : BreakerIn(p)
  \/ \E p \in Procs : Transport(p)
  \/ \E p \in Procs : BreakerOut(p)
  \/ \E p \in Procs : Recycle(p)

SpecBreaker == InitBreaker /\ [][NextBreaker]_vars

(***************************************************************************)
(* SpecChain: a client built from a list of middlewares, its callers       *)
(* sending one request at a time.                                          *)
(***************************************************************************)
\* the middleware lists given to NewHTTPClient
Chains ==
  {<<>>,
   <<"header", "cache">>,
   <<"cache", "breaker">>,
   <<"logging", "header", "cache", "breaker">>}

InitChain ==
  /\ middlewares \in Chains
  /\ cfg \in Configs
  /\ callers = [limit |-> 1, requests |-> {GetA, PostA}]
  /\ store \in Stores
  /\ fx = NoFx
  /\ Idle

NextChain ==
  \/ \E p \in Procs : Start(p)
  \/ \E p \in Procs : LoggingIn(p)
  \/ \E p \in Procs : HeaderIn(p)
  \/ \E p \in Procs : CacheIn(p)
  \/ \E p \in Procs : BreakerIn(p)
  \/ \E p \in Procs : Transport(p)
  \/ \E p \in Procs : BreakerOut(p)
  \/ \E p \in Procs : CacheOut(p)
  \/ \E p \in Procs : HeaderOut(p)
  \/ \E p \in Procs : LoggingOut(p)
  \/ \E p \in Procs : Retire(p)
  \/ \E w \in pending : SetComplete(w)

SpecChain == InitChain /\ [][NextChain]_vars

(***************************************************************************)
(* SpecDetached: the cache middleware with a working store, the callers'   *)
(* contexts ending at any time after they got their response.              *)
(***************************************************************************)
InitDetached ==
  /\ middlewares = <<"cache">>
  /\ cfg = CacheConfig(TRUE, 0, FALSE)
  /\ callers = [limit |-> NumReq, requests |-> {GetA}]
  /\ store = <<>>
  /\ fx = NoFx
  /\ Idle

NextDetached ==
  \/ \E p \in Procs : Start(p)
  \/ \E p \in Procs : CacheIn(p)
  \/ \E p \in Procs : Transport(p)
  \/ \E p \in Procs : CacheOut(p)
  \/ \E p \in Procs : Cancel(p)
  \/ \E w \in pending : SetComplete(w)

SpecDetached == InitDetached /\ [][NextDetached]_vars

(***************************************************************************)
(* SpecExpiry: the cache middleware without the override, its callers      *)
(* sending one request at a time, over a store that drops the entries      *)
(* whose expiration has passed.                                            *)
(***************************************************************************)
\* the store drops the entry under key k once its expiration has passed; an
\* entry set with expiration 0 has none
Expire(k) ==
  /\ k \in DOMAIN store
  /\ store[k].ttl > 0
  /\ store' = [j \in DOMAIN store \ {k} |-> store[j]]
  /\ UNCHANGED <<middlewares, cfg, callers, pc, depth, req, resp, err, cache,
                 breaker, calls, pending, sets, window, fx, ctx, setErr, got>>

InitExpiry ==
  /\ middlewares = <<"cache">>
  /\ cfg = CacheConfig(TRUE, 30 * Second, FALSE)
  /\ callers = [limit |-> 1, requests |-> {GetA}]
  /\ store = <<>>
  /\ fx = NoFx
  /\ Idle

NextExpiry ==
  \/ \E p \in Procs : Start(p)
  \/ \E p \in Procs : CacheIn(p)
  \/ \E p \in Procs : Transport(p)
  \/ \E p \in Procs : CacheOut(p)
  \/ \E p \in Procs : Retire(p)
  \/ \E w \in pending : SetComplete(w)
  \/ \E k \in DOMAIN store : Expire(k)

SpecExpiry == InitExpiry /\ [][NextExpiry]_vars

(***************************************************************************)
(* SpecKey: getCacheKey applied to two GET requests.                       *)
(***************************************************************************)
\* the longest query string, in name=value pairs
MaxQueryLen == 2

One == <<"1">>

Two == <<"2">>

QueryPairs == {Pair(<<"x">>, One), Pair(<<"x">>, Two), Pair(<<"y">>, One)}

Queries == UNION {[1..n -> QueryPairs] : n \in 0..MaxQueryLen}

\* header values, one of them holding the separators "|" and ":"
ValuesA == {<<>>, <<"x">>, <<"y">>, <<"x", "|", "B", ":", "y">>}

ValuesB == {<<>>, <<"y">>}

KeyRequests ==
  {Request("GET", Path(c), q, [h \in HeaderNames |-> IF h = HeaderA THEN a ELSE b]) :
     c \in {"a", "b"}, q \in Queries, a \in ValuesA, b \in ValuesB}

\* CacheConfig.Headers
HeaderLists == {<<HeaderA>>, <<HeaderA, HeaderB>>}

InitKey ==
  /\ middlewares = <<"cache">>
  /\ cfg = CacheConfig(TRUE, 0, FALSE)
  /\ callers = [limit |-> 0, requests |-> {}]
  /\ store = <<>>
  /\ fx \in [op : {"key"}, a : {r \in KeyRequests : r.url.path = Path("a")},
             b : KeyRequests, headers : HeaderLists, done : {FALSE},
             ka : {<<>>}, kb : {<<>>}]
  /\ Idle

\* the cache middleware derives the key of each request
ApplyKey ==
  /\ fx.op = "key" /\ ~fx.done
  /\ fx' = [fx EXCEPT !.done = TRUE,
                      !.ka = getCacheKey(fx.a, fx.headers),
                      !.kb = getCacheKey(fx.b, fx.headers)]
  /\ UNCHANGED <<middlewares, cfg, callers, pc, depth, req, resp, err, cache,
                 breaker, calls, store, pending, sets, window, ctx, setErr,
                 got>>

SpecKey == InitKey /\ [][ApplyKey]_vars

(***************************************************************************)
(* SpecTTL: the 2xx branch of the miss path applied to one response.       *)
(***************************************************************************)
\* upstream max-age values, in seconds
MaxAges == {0, 5, 60, 3600, 999999, 1000000}

\* configured TTLs: whole seconds, in milliseconds
TTLs == {0, 30 * Second, 3600 * Second, 1000000 * Second}

\* Cache-Control values of the upstream response
CacheControls ==
  {<<>>, <<"n", "o", "-", "s", "t", "o", "r", "e">>,
   <<"p", "u", "b", "l", "i", "c", ",", " ">> \o MaxAge60}
  \cup {MaxAgeEq \o Itoa(m) : m \in MaxAges}

InitTTL ==
  /\ middlewares = <<"cache">>
  /\ cfg \in {CacheConfig(TRUE, t, o) : t \in TTLs, o \in BOOLEAN}
  /\ callers = [limit |-> 0, requests |-> {}]
  /\ store = <<>>
  /\ fx \in [op : {"ttl"}, in : {Response(200, cc, TRUE) : cc \in CacheControls},
             done : {FALSE}, out : {NoRecord}]
  /\ Idle

\* the cache middleware handles the 2xx response of a miss
ApplyTTL ==
  /\ fx.op = "ttl" /\ ~fx.done
  /\ fx' = [fx EXCEPT !.done = TRUE, !.out = MissStore(fx.in, cfg)]
  /\ UNCHANGED <<middlewares, cfg, callers, pc, depth, req, resp, err, cache,
                 breaker, calls, store, pending, sets, window, ctx, setErr,
                 got>>

SpecTTL == InitTTL /\ [][ApplyTTL]_vars

(***************************************************************************)
(* SpecHeader: the header middleware outside the cache middleware, the     *)
(* callers' requests carrying header values of their own, one at a time.   *)
(***************************************************************************)
\* GET /a carrying A: x and no B, and GET /a carrying A: y and B: y
GetX == Request("GET", Path("a"), <<>>, [NoHeaders EXCEPT ![HeaderA] = <<"x">>])

GetY ==
  Request("GET", Path("a"), <<>>,
          [NoHeaders EXCEPT ![HeaderA] = <<"y">>, ![HeaderB] = <<"y">>])

\* the header middleware sets A; the key is derived from A, or from A and B
InitHeader ==
  /\ middlewares = <<"header", "cache">>
  /\ cfg \in {[CacheConfig(TRUE, 0, FALSE) EXCEPT !.headers = hs] : hs \in HeaderLists}
  /\ callers = [limit |-> 1, requests |-> {GetA, GetX, GetY}]
  /\ store = <<>>
  /\ fx = NoFx
  /\ Idle

NextHeader ==
  \/ \E p \in Procs : Start(p)
  \/ \E p \in Procs : HeaderIn(p)
  \/ \E p \in Procs : CacheIn(p)
  \/ \E p \in Procs : Transport(p)
  \/ \E p \in Procs : CacheOut(p)
  \/ \E p \in Procs : HeaderOut(p)
  \/ \E p \in Procs : Retire(p)
  \/ \E w \in pending : SetComplete(w)

SpecHeader == InitHeader /\ [][NextHeader]_vars

(***************************************************************************)
(* SpecRoundTrip: a 2xx response taken through the miss path, and the      *)
(* record written for it taken through the hit path.                       *)
(***************************************************************************)
\* 2xx responses: text and binary bodies, with and without an X-Cache header
\* of their own
RoundTripResponses ==
  {[Response(code, cc, TRUE) EXCEPT !.body = b, !.xcache = x] :
     code \in {200, 204}, cc \in CacheControls, b \in {"json", "binary"},
     x \in {"", "cdn"}}

InitRoundTrip ==
  /\ middlewares = <<"cache">>
  /\ cfg \in {CacheConfig(TRUE, t, o) : t \in TTLs, o \in BOOLEAN}
  /\ callers = [limit |-> 0, requests |-> {}]
  /\ store = <<>>
  /\ fx \in [op : {"roundtrip"}, in : RoundTripResponses, done : {FALSE},
             miss : {NoResp}, hit : {NoResp}]
  /\ Idle

\* the response of the miss, and the response of a hit on the record stored
ApplyRoundTrip ==
  /\ fx.op = "roundtrip" /\ ~fx.done
  /\ LET m == MissStore(fx.in, cfg)
     IN  fx' = [fx EXCEPT !.done = TRUE, !.miss = m.resp,
                  !.hit = CacheLookup(m.value).resp]
  /\ UNCHANGED <<middlewares, cfg, callers, pc, depth, req, resp, err, cache,
                 breaker, calls, store, pending, sets, window, ctx, setErr,
                 got>>

SpecRoundTrip == InitRoundTrip /\ [][ApplyRoundTrip]_vars

(***************************************************************************)
(* SpecFacade: HTTPClient.doRequest applied to what c.client.Do returned.  *)
(* A body is "json" (a JSON document), "" (empty) or "text" (not JSON).    *)
(***************************************************************************)
\* the verbs of the facade: Get, Post, Put, Patch, Delete, Head
Verbs == {"GET", "POST", "PUT", "PATCH", "DELETE", "HEAD"}

\* json.Unmarshal(bodyBytes, &jsonBody)
jsonUnmarshal(body) ==
  IF body = "json" THEN [value |-> [decoded |-> body], err |-> NoErr]
  ELSE [value |-> NoRecord, err |-> [kind |-> "json"]]

\* &HTTPResponse{Body, StatusCode, Headers}
HTTPResponse(body, r) ==
  [Body |-> body, StatusCode |-> r.code,
   Headers |-> [cc |-> r.cc, xcache |-> r.xcache]]

\* a facade that takes an empty body for a response without content
doRequestEmptyOk(method, rt) ==
  IF rt.err # NoErr
  THEN [resp |-> NoResp, err |-> Wrapped("request execution failed", rt.err)]
  ELSE IF ~rt.resp.readable
  THEN [resp |-> NoResp,
        err |-> Wrapped("failed to read response body", [kind |-> "read"])]
  ELSE IF rt.resp.body = ""
  THEN [resp |-> HTTPResponse(NoRecord, rt.resp), err |-> NoErr]
  ELSE LET u == jsonUnmarshal(rt.resp.body)
       IN  IF u.err # NoErr
           THEN [resp |-> NoResp,
                 err |-> Wrapped("failed to unmarshal response body", u.err)]
           ELSE [resp |-> HTTPResponse(u.value, rt.resp), err |-> NoErr]

\* doRequest from c.client.Do on: rt is what Do returned
doRequest(method, rt) ==
  IF rt.err # NoErr
  THEN [resp |-> NoResp, err |-> Wrapped("request execution failed", rt.err)]
  ELSE IF ~rt.resp.readable
  THEN [resp |-> NoResp,
        err |-> Wrapped("failed to read response body", [kind |-> "read"])]
  ELSE LET u == jsonUnmarshal(rt.resp.body)
       IN  IF u.err # NoErr
           THEN [resp |-> NoResp,
                 err |-> Wrapped("failed to unmarshal response body", u.err)]
           ELSE [resp |-> HTTPResponse(u.value, rt.resp), err |-> NoErr]

\* what c.client.Do may return
FacadeRoundTrips ==
  {[resp |-> [Response(code, cc, readable) EXCEPT !.body = b], err |-> NoErr] :
     code \in {200, 204, 404, 500}, cc \in {<<>>, MaxAge60},
     b \in {"json", "", "text"}, readable \in BOOLEAN}
  \cup {[resp |-> NoResp, err |-> TransportErr],
        [resp |-> NoResp, err |-> HTTPStatusError(500)]}

InitFacade ==
  /\ middlewares = <<>>
  /\ cfg = CacheConfig(FALSE, 0, FALSE)
  /\ callers = [limit |-> 0, requests |-> {}]
  /\ store = <<>>
  /\ fx \in [op : {"facade"}, method : Verbs, rt : FacadeRoundTrips,
             done : {FALSE}, out : {NoRecord}]
  /\ Idle

\* the facade turns the result of the round trip into its own
ApplyFacade ==
  /\ fx.op = "facade" /\ ~fx.done
  /\ fx' = [fx EXCEPT !.done = TRUE, !.out = doRequest(fx.method, fx.rt)]
  /\ UNCHANGED <<middlewares, cfg, callers, pc, depth, req, resp, err, cache,
                 breaker, calls, store, pending, sets, window, ctx, setErr, got>>

SpecFacade == InitFacade /\ [][ApplyFacade]_vars

(***************************************************************************)
(* SpecCompose: NewHTTPClient applied to a middleware list that may hold   *)
(* nil entries.                                                            *)
(***************************************************************************)
\* the longest middleware list
MaxChainLen == 3

MiddlewareKinds == {"logging", "header", "cache", "breaker"}

MiddlewareLists ==
  UNION {[1..n -> MiddlewareKinds \cup {NilMiddleware}] : n \in 0..MaxChainLen}

\* NewHTTPClient: the client around the composed transport, or the panic
\* of configMiddlewares
NewHTTPClient(mws) ==
  LET composed == configMiddlewares(mws)
  IN  IF composed = Panic THEN [panic |-> TRUE]
      ELSE [panic |-> FALSE, client |-> [Transport |-> composed]]

InitCompose ==
  /\ middlewares = <<>>
  /\ cfg = CacheConfig(FALSE, 0, FALSE)
  /\ callers = [limit |-> 0, requests |-> {}]
  /\ store = <<>>
  /\ fx \in [op : {"compose"}, mws : MiddlewareLists, done : {FALSE},
             out : {NoRecord}]
  /\ Idle

\* the program constructs the client
ApplyCompose ==
  /\ fx.op = "compose" /\ ~fx.done
  /\ fx' = [fx EXCEPT !.done = TRUE, !.out = NewHTTPClient(fx.mws)]
  /\ UNCHANGED <<middlewares, cfg, callers, pc, depth, req, resp, err, cache,
                 breaker, calls, store, pending, sets, window, ctx, setErr, got>>

SpecCompose == InitCompose /\ [][ApplyCompose]_vars

(***************************************************************************)
(* SpecForward: the server's ForwardHeadersMiddleware applied to one       *)
(* incoming request.                                                       *)
(***************************************************************************)
defaultForwardHeaders ==
  <<"x-request-id", "x-canonical-uri", "x-client-user-agent", "x-platform-id",
    "x-device-id", "x-client-version", "x-tenant-id", "x-profile-type",
    "x-country-code", "x-origin-ip", "x-hsid", "x-glb-exp-id">>

\* the header names an incoming request may carry
IncomingHeaderNames ==
  {"x-request-id", "x-client-user-agent", "x-tenant-id", "x-origin-app"}

\* incoming requests: each header absent ("") or present with a value
IncomingRequests ==
  {[h \in IncomingHeaderNames |->
      IF h = "x-origin-app" THEN o
      ELSE IF h = "x-request-id" THEN a
      ELSE IF h = "x-client-user-agent" THEN b ELSE t] :
     a \in {"", "r1"}, b \in {"", "curl"}, t \in {"", "t1"},
     o \in {"", "my-app", "spoofed"}}

\* the lists the middleware is configured with
ForwardLists ==
  {<<>>, <<"x-request-id">>, <<"x-request-id", "x-client-user-agent">>,
   <<"x-origin-app", "x-tenant-id">>}

\* c.Get(h): the value of header h of the request, "" when it is absent
CtxGet(request, h) == IF h \in DOMAIN request THEN request[h] ELSE ""

\* the handler: the map of the listed headers that are present, stored in
\* the user context under forwardedHeaders
ForwardHeadersMiddleware(appName, forwardHeaders, request) ==
  LET list == IF Len(forwardHeaders) = 0 THEN defaultForwardHeaders
              ELSE forwardHeaders
      present == {list[i] : i \in {j \in 1..Len(list) :
                                     CtxGet(request, list[j]) # ""}}
      headersMap == [h \in present |-> CtxGet(request, h)]
  IN  [forwardedHeaders |-> headersMap]

InitForward ==
  /\ middlewares = <<>>
  /\ cfg = CacheConfig(FALSE, 0, FALSE)
  /\ callers = [limit |-> 0, requests |-> {}]
  /\ store = <<>>
  /\ fx \in [op : {"forward"}, appName : {"my-app", "billing"},
             forwardHeaders : ForwardLists, request : IncomingRequests,
             done : {FALSE}, out : {NoRecord}]
  /\ Idle

\* the handler runs for the incoming request
ApplyForward ==
  /\ fx.op = "forward" /\ ~fx.done
  /\ fx' = [fx EXCEPT !.done = TRUE,
                      !.out = ForwardHeadersMiddleware(fx.appName,
                                fx.forwardHeaders, fx.request)]
  /\ UNCHANGED <<middlewares, cfg, callers, pc, depth, req, resp, err, cache,
                 breaker, calls, store, pending, sets, window, ctx, setErr, got>>

SpecForward == InitForward /\ [][ApplyForward]_vars

(***************************************************************************)
(* Properties.                                                             *)
(***************************************************************************)
\* the calls classified so far are at least MinRequests, at least
\* FailurePercent of them failures
ThresholdReached ==
  /\ window.requests >= MinRequests
  /\ (window.failures * 100) \div window.requests >= FailurePercent

\* request p passes from the breaker middleware's entry to wherever it goes next
EntersBreaker(p) ==
  /\ pc[p] = "in"
  /\ Kind(p) = "breaker"
  /\ depth'[p] # depth[p]

\* C1: once at least 20 calls were classified in the window, at least 50% of
\* them failures, the next call through the breaker middleware is refused
\* with the circuit-open error and the inner transport is not invoked
C1_OpenAfterThreshold ==
  [][\A p \in Procs :
       (ThresholdReached /\ EntersBreaker(p))
         => (pc'[p] # "in" /\ err'[p] = ErrOpenState /\ calls'[p] = 0)]_vars

\* C2: a request served from the cache (the stored value is not empty and
\* deserializes) gets the response rebuilt from a record the middleware
\* stored under its key, without error, and the base transport makes no
\* round trip for it
C2_HitSkipsTransport ==
  \A p \in Procs :
    cache[p].mode = "hit"
      => /\ calls[p] = 0
         /\ pc[p] \in {"out", "done"}
         /\ err[p] = NoErr
         /\ \E s \in sets : /\ s.set.key = cache[p].key
                            /\ resp[p] = HitResponse(s.set.value)

\* C2 witness: a request was served from the cache
C2_Witness == \E p \in Procs : cache[p].mode = "hit" /\ pc[p] = "done"

\* C3: every Set issued, pending or applied to the store comes from a GET
\* request whose inner transport returned no error and a status in 200..299
C3_SetOnlyForGet2xx ==
  /\ \A s \in sets :
       /\ s.method = "GET"
       /\ s.inner.err = NoErr
       /\ s.inner.resp # NoResp
       /\ s.inner.resp.code >= 200 /\ s.inner.resp.code <= 299
  /\ \A w \in pending : \E s \in sets : s.set = w
  /\ \A k \in DOMAIN store :
       store[k].val = Garbage \/ \E s \in sets : s.set.key = k /\ s.set.value = store[k].val

\* C3 witness: a Set was issued, while a 404 response, a transport error or a
\* POST request was returned without one
C3_Witness ==
  /\ sets # {}
  /\ \E p \in Procs :
       /\ pc[p] = "done"
       /\ \A s \in sets : s.set.owner # p
       /\ \/ req[p].method = "POST"
          \/ err[p] # NoErr
          \/ (resp[p] # NoResp /\ resp[p].code \in {404, 500})

\* C4: a request in the composed transport is in layer i exactly when it has
\* passed the middlewares 1..i-1 of the declared list, inward and outward,
\* the base transport lying behind the last one; with no middleware the
\* composed transport is the base transport
C4_DeclaredOrder ==
  /\ configMiddlewares(middlewares) = middlewares \o DefaultTransport
  /\ \A p \in Procs :
       pc[p] \in {"in", "out"}
         => /\ depth[p] \in 1..(Len(middlewares) + 1)
            /\ Kind(p) = (IF depth[p] <= Len(middlewares)
                          THEN middlewares[depth[p]] ELSE "transport")
            /\ (pc[p] = "out" => depth[p] <= Len(middlewares))

\* C4 witness: a response has travelled back to the outermost of four middlewares
C4_Witness ==
  \E p \in Procs : Len(middlewares) = 4 /\ pc[p] = "out" /\ depth[p] = 1 /\ calls[p] = 1

\* request p passes from the breaker middleware's exit to the layer around it
LeavesBreaker(p) ==
  /\ pc[p] = "out"
  /\ Kind(p) = "breaker"
  /\ depth'[p] # depth[p]

\* C5: the counts a call's breaker evaluates hold the outcomes of all calls
\* classified so far in the window: its failure count is the number of
\* failures classified, its request count at least the number of calls
C5_SharedCounts ==
  [][\A p \in Procs :
       (LeavesBreaker(p) /\ breaker'[p].cb.generation = breaker[p].generation)
         => /\ breaker'[p].cb.totalFailures = window'.failures
            /\ breaker'[p].cb.requests >= window'.requests]_vars

\* how often the pair q occurs in a query string
PairCount(query, q) == Cardinality({i \in 1..Len(query) : query[i] = q})

\* the same parameter names with the same values, in any order
SameParameters(a, b) ==
  \A q \in {a.url.query[i] : i \in 1..Len(a.url.query)}
           \cup {b.url.query[i] : i \in 1..Len(b.url.query)} :
    PairCount(a.url.query, q) = PairCount(b.url.query, q)

\* the same value for every header of the configured list
SameKeyHeaders(a, b, headers) ==
  \A i \in 1..Len(headers) : a.hdr[headers[i]] = b.hdr[headers[i]]

SameKeyInputs ==
  /\ fx.a.url.path = fx.b.url.path
  /\ SameParameters(fx.a, fx.b)
  /\ SameKeyHeaders(fx.a, fx.b, fx.headers)

\* C6: two GET requests with the same path, the same query parameters in any
\* order and the same values of the configured key headers get the same key
C6_SameInputsSameKey ==
  (fx.op = "key" /\ fx.done /\ SameKeyInputs) => fx.ka = fx.kb

\* C7: two GET requests that differ in the path, in a query parameter or in
\* the value of a configured key header get different keys, whatever the
\* header values hold
C7_DifferentInputsDifferentKey ==
  (fx.op = "key" /\ fx.done /\ ~SameKeyInputs) => fx.ka # fx.kb

\* the Cache-Control value carries a max-age directive
HasMaxAge(v) == \E i \in 1..Len(v) : MaxAgeAt(v, i)

\* the Cache-Control value "max-age=<seconds>, public"
MaxAgePublic(seconds) == MaxAgeEq \o Itoa(seconds) \o PublicSuffix

\* C8: for a 2xx response of a miss carrying max-age=M, the expiration given
\* to Set and the max-age of the rewritten Cache-Control are M seconds with
\* the override disabled, and the configured TTL with the override enabled
C8_EffectiveTTL ==
  (fx.op = "ttl" /\ fx.done /\ HasMaxAge(fx.in.cc))
    => IF cfg.override
       THEN /\ fx.out.ttl = cfg.ttl
            /\ fx.out.resp.cc = MaxAgePublic(cfg.ttl \div Second)
       ELSE /\ fx.out.ttl = ParseMaxAge(fx.in.cc) * Second
            /\ fx.out.resp.cc = MaxAgePublic(ParseMaxAge(fx.in.cc))

\* C9 as stated: every response the cache middleware returns carries X-Cache
\* with the value HIT or MISS
C9_AlwaysMarked ==
  \A p \in Procs :
    (pc[p] = "done" /\ resp[p] # NoResp) => resp[p].xcache \in {"HIT", "MISS"}

\* C9 as amended: a response of the hit path carries X-Cache: HIT, a 2xx
\* response of the miss path carries X-Cache: MISS, and on every other path
\* the response is the one the inner transport produced, X-Cache untouched
C9_MarkedOnHitAndStoredMiss ==
  \A p \in Procs :
    (pc[p] = "done" /\ resp[p] # NoResp)
      => IF cache[p].mode = "hit" THEN resp[p].xcache = "HIT"
         ELSE IF cache[p].mode = "miss" /\ resp[p].code >= 200 /\ resp[p].code <= 299
         THEN resp[p].xcache = "MISS"
         ELSE \E o \in Upstream : resp[p] = o.resp

\* C9 witness: one request was served from the cache and another got the 2xx
\* response of a miss
C9_Witness ==
  \E p, q \in Procs :
    /\ pc[p] = "done" /\ cache[p].mode = "hit" /\ resp[p].xcache = "HIT"
    /\ pc[q] = "done" /\ cache[q].mode = "miss" /\ resp[q] # NoResp
    /\ resp[q].xcache = "MISS"

\* C10: a request whose stored value does not deserialize is handled as a
\* miss: one round trip, no decode error, and for a 2xx response the marker
\* of the miss path and a Set under the request's key
C10_FallbackIsMiss ==
  \A p \in Procs :
    (pc[p] = "done" /\ cache[p].mode = "fallback")
      => /\ calls[p] = 1
         /\ (err[p] = NoErr \/ err[p].kind \in {"transport", "wrapped"})
         /\ (err[p] = NoErr /\ resp[p].code >= 200 /\ resp[p].code <= 299 /\ resp[p].readable)
              => /\ resp[p].xcache = "MISS"
                 /\ \E s \in sets : s.set.owner = p /\ s.set.key = cache[p].key

\* request p was answered on the miss path with the error of the inner chain
MissTransportError(p) ==
  /\ pc[p] = "done"
  /\ cache[p].mode = "miss"
  /\ resp[p] = NoResp
  /\ err[p] # NoErr

C12_DetachedWrite ==
  [][/\ \A s \in sets' \ sets :
          /\ s.set \in pending'
          /\ setErr'[s.set.owner] = "none"
          /\ pc'[s.set.owner] = "done"
     /\ \A s \in sets' :
          /\ resp'[s.set.owner] = MissStore(s.inner.resp, cfg).resp
          /\ err'[s.set.owner] = NoErr
          /\ Cardinality({t \in sets' : t.set.owner = s.set.owner}) = 1
          /\ setErr'[s.set.owner] # "none" => s.set \notin pending'
     /\ \A w \in pending \ pending' : UNCHANGED <<pc, resp, err, sets>>]_vars

\* C12 witness: one request holds its response while its Set is still to be
\* made, another holds its response after its Set failed, nothing stored
C12_Witness ==
  \E p, q \in Procs :
    /\ pc[p] = "done" /\ resp[p] # NoResp /\ resp[p].xcache = "MISS"
    /\ err[p] = NoErr /\ setErr[p] = "none"
    /\ \E w \in pending : w.owner = p
    /\ pc[q] = "done" /\ resp[q] # NoResp /\ resp[q].xcache = "MISS"
    /\ err[q] = NoErr /\ setErr[q] = "store"
    /\ store = <<>>

\* C13: no Set of the detached goroutine is ended by the caller's context
C13_WriteOutlivesCaller ==
  \A p \in Procs : setErr[p] # "canceled"

\* C14: the response of a hit on the record written for a 2xx response is
\* the response the miss returned, but for the X-Cache marker: the same
\* status, status code, protocol, headers and body, readable in full
C14_HitEqualsMiss ==
  (fx.op = "roundtrip" /\ fx.done)
    => /\ fx.miss.xcache = "MISS"
       /\ fx.hit.xcache = "HIT"
       /\ [fx.hit EXCEPT !.xcache = "MISS"] = fx.miss

\* the effective max-age of the response fx.in, in whole seconds
EffectiveSeconds == EffectiveTTL(fx.in, cfg) \div Second

\* C15 as stated: the record's cacheControlValue is the max-age of the
\* upstream Cache-Control (0 if absent) and its policy.maxAge the effective
\* max-age
C15_OriginalAndEffective ==
  (fx.op = "ttl" /\ fx.done)
    => /\ fx.out.value.cacheControlValue = ParseMaxAge(fx.in.cc)
       /\ fx.out.value.policy.maxAge = EffectiveSeconds

\* C15 as amended: policy.maxAge is the max-age of the upstream
\* Cache-Control (0 if absent); cacheControlValue is the max-age read back
\* from the rewritten Cache-Control, the effective max-age when that is
\* below 1000000 seconds
C15_EffectiveAndOriginal ==
  (fx.op = "ttl" /\ fx.done)
    => /\ fx.out.value.policy.maxAge = ParseMaxAge(fx.in.cc)
       /\ fx.out.value.cacheControlValue = ParseMaxAge(fx.out.resp.cc)
       /\ EffectiveSeconds < 1000000
            => fx.out.value.cacheControlValue = EffectiveSeconds

\* C15 witness: a record written under a 30 s override for a response with
\* max-age=60
C15_Witness ==
  /\ fx.op = "ttl" /\ fx.done
  /\ cfg.override /\ cfg.ttl = 30 * Second
  /\ fx.in.cc = MaxAge60
  /\ fx.out.value.cacheControlValue = 30
  /\ fx.out.value.policy.maxAge = 60

\* the window holds at least MinRequests calls, all of them failures, and
\* fewer than MaxRequests calls beyond them: the last failure tripped the
\* breaker and no run of trial calls can have closed it since
TrippedByFailures ==
  /\ window.requests >= MinRequests
  /\ window.failures = window.requests
  /\ window.requests < MinRequests + MaxRequests

\* C16: once the breaker is Open, a call is refused with the circuit-open
\* error or, the open interval over, let through to the inner transport as
\* a trial call of the Half-Open breaker; a trial call that fails returns
\* the breaker to Open, and the trial call that completes a run of
\* MaxRequests successes returns it to Closed
C16_HalfOpenTrials ==
  [][\A p \in Procs :
       /\ (TrippedByFailures /\ EntersBreaker(p))
            => \/ pc'[p] # "in" /\ err'[p] = ErrOpenState /\ calls'[p] = 0
               \/ pc'[p] = "in" /\ breaker'[p].cb.state = "half-open"
       /\ (LeavesBreaker(p) /\ breaker[p].cb.state = "half-open"
              /\ breaker'[p].cb.generation = breaker[p].generation + 1)
            => breaker'[p].cb.state
                 = (IF IsSuccessful(ExecuteCallback(resp[p], err[p]).err)
                    THEN "closed" ELSE "open")]_vars

\* what the inner transport returned to request p is a failure: a transport
\* error, or a response with status >= 500 or 429
InnerFailure(p) ==
  \/ err[p] # NoErr
  \/ resp[p] # NoResp /\ (resp[p].code >= 500 \/ resp[p].code = 429)

\* C17: a call that leaves the breaker is counted as one request, and as one
\* failure exactly when the inner transport returned an error or a response
\* with status >= 500 or 429; the breaker that ran it counts the same
C17_Classification ==
  [][\A p \in Procs :
       LeavesBreaker(p)
         => /\ window'.requests = window.requests + 1
            /\ window'.failures
                 = window.failures + (IF InnerFailure(p) THEN 1 ELSE 0)
            /\ breaker'[p].cb.generation = breaker[p].generation
                 => breaker'[p].cb.totalFailures
                      = breaker[p].cb.totalFailures
                        + (IF InnerFailure(p) THEN 1 ELSE 0)
            /\ (err'[p] = NoErr) = ~InnerFailure(p)]_vars

\* C17 witness: a 404 response was counted as a success and a 429 response
\* as a failure
C17_Witness ==
  \E p, q \in Procs :
    /\ window = [requests |-> 2, failures |-> 1]
    /\ pc[p] = "done" /\ resp[p] # NoResp /\ resp[p].code = 404
    /\ breaker[p].cb.totalFailures = 0
    /\ pc[q] = "done" /\ err[q] = HTTPStatusError(429)
    /\ breaker[q].cb.totalFailures = 1

\* C18: what a layer of the composed transport hands back to its caller is
\* either a response or an error, never both and never neither
C18_ResponseOrError ==
  \A p \in Procs :
    pc[p] \in {"out", "done"} => (resp[p] # NoResp) # (err[p] # NoErr)

\* the cache middleware is declared before the circuit breaker middleware
CacheOutsideBreaker ==
  \E i, j \in 1..Len(middlewares) :
    i < j /\ middlewares[i] = "cache" /\ middlewares[j] = "breaker"

\* C19: with the cache outside the breaker, a request served from the cache
\* goes no further than the cache middleware: no breaker is entered for it,
\* the base transport is not called, and no step it takes changes the
\* counts of classified calls
C19_HitSkipsBreaker ==
  [][\A p \in Procs :
       (CacheOutsideBreaker /\ cache'[p].mode = "hit")
         => /\ breaker'[p].cb = NoBreaker
            /\ calls'[p] = 0
            /\ pc'[p] \in {"out", "done"}
            /\ depth'[p] < CHOOSE i \in 1..Len(middlewares) : middlewares[i] = "cache"
            /\ (pc'[p] # pc[p] \/ depth'[p] # depth[p]) => window' = window]_vars

\* C19 witness: behind logging, header and cache a request was served from
\* the cache after an earlier request went through the breaker
C19_Witness ==
  \E p \in Procs :
    /\ middlewares = <<"logging", "header", "cache", "breaker">>
    /\ pc[p] = "done" /\ cache[p].mode = "hit"
    /\ breaker[p].cb = NoBreaker
    /\ window.requests = 1

\* the cache middleware has derived the key of request p
KeyDerived(p) == cache[p].mode \in {"hit", "miss", "fallback"}

\* C20: behind the header middleware the key of a request is derived from
\* its header values as the middleware left them, each configured header
\* holding the configured value; a request whose URL and key headers end
\* with the values of a request that wrote an entry has the key of that
\* entry
C20_KeyFromFinalHeaders ==
  /\ \A p \in Procs :
       KeyDerived(p)
         => /\ \A h \in HeaderNames : cfg.set[h] # <<>> => req[p].hdr[h] = cfg.set[h]
            /\ cache[p].key = getCacheKey(req[p], cfg.headers)
  /\ \A p \in Procs : \A s \in sets :
       (KeyDerived(p) /\ req[p].url = s.req.url
          /\ SameKeyHeaders(req[p], s.req, cfg.headers))
         => cache[p].key = s.set.key

\* C20 witness: the key derived from A alone; the request sent with A: y
\* (it still carries B: y) was served from the entry written for a request
\* sent with A: x or without A (it carries no B), under the one key
C20_Witness ==
  \E q \in Procs : \E s \in sets :
    /\ cfg.headers = <<HeaderA>>
    /\ s.req.hdr[HeaderB] = <<>> /\ s.req.hdr[HeaderA] = <<"t">>
    /\ pc[q] = "done" /\ cache[q].mode = "hit" /\ req[q].hdr[HeaderB] = <<"y">>
    /\ req[q].hdr[HeaderA] = <<"t">>
    /\ cache[q].key = s.set.key
    /\ resp[q] = HitResponse(s.set.value)

\* request p is at the cache middleware and leaves it, inward or outward
LeavesCache(p) ==
  /\ pc[p] \in {"in", "out"}
  /\ Kind(p) = "cache"
  /\ depth'[p] # depth[p]

\* C21: without a store, or for a method other than GET, the cache
\* middleware makes no Get and no Set, calls the inner transport once and
\* returns what it returned, unmodified
C21_Bypass ==
  [][\A p \in Procs :
       /\ (pc[p] = "in" /\ LeavesCache(p))
            => (cache'[p].mode = "bypass") = (~cfg.redis \/ req[p].method # "GET")
       /\ (LeavesCache(p) /\ cache'[p].mode = "bypass")
            => /\ got'[p] = "none"
               /\ UNCHANGED <<store, pending, sets>>
               /\ pc[p] = "in" => pc'[p] = "in" /\ depth'[p] = depth[p] + 1
               /\ pc[p] = "out"
                    => resp'[p] = resp[p] /\ err'[p] = err[p] /\ calls[p] = 1]_vars

\* C21 witness: with a store configured a POST request got the 200 response
\* of the transport as it was, no Get made; the store is empty
C21_Witness ==
  \E p \in Procs :
    /\ cfg.redis /\ req[p].method = "POST"
    /\ pc[p] = "done" /\ cache[p].mode = "bypass"
    /\ resp[p] = Response(200, MaxAge60, TRUE) /\ err[p] = NoErr
    /\ got[p] = "none" /\ calls[p] = 1
    /\ sets = {} /\ store = <<>>

\* C22: a response outside 200..299 that the inner transport gave for a GET
\* miss is returned as it is, with no error, and nothing is written for it
C22_NonSuccessAsIs ==
  [][\A p \in Procs :
       (pc[p] = "out" /\ LeavesCache(p) /\ cache[p].mode = "miss"
          /\ err[p] = NoErr /\ (resp[p].code < 200 \/ resp[p].code > 299))
         => /\ resp'[p] = resp[p]
            /\ err'[p] = NoErr
            /\ UNCHANGED <<store, pending, sets>>]_vars

\* C22 witness: a GET miss was answered with the 404 response of the
\* transport, its Cache-Control and its own X-Cache header as they came
C22_Witness ==
  \E p \in Procs :
    /\ pc[p] = "done" /\ cache[p].mode = "miss" /\ err[p] = NoErr
    /\ resp[p] = [Response(404, MaxAge60, TRUE) EXCEPT !.xcache = "cdn"]
    /\ \A s \in sets : s.set.owner # p

\* C23: requests for one key are handled apart from each other: a request
\* at the cache middleware can take its step whatever the others do, each
\* request that missed calls the inner transport itself, and a Set the
\* store applies replaces the entry under its key, so the entry is that of
\* the Set applied last
C23_LastWriteWins ==
  [][/\ \A p \in Procs :
          /\ (pc[p] = "in" /\ Kind(p) = "cache") => ENABLED CacheIn(p)
          /\ (pc'[p] = "done" /\ cache'[p].mode = "miss") => calls'[p] = 1
     /\ \A w \in pending \ pending' :
          IF setErr'[w.owner] = "nil"
          THEN /\ w.key \in DOMAIN store'
               /\ store'[w.key] = [val |-> w.value, ttl |-> w.ttl]
          ELSE store' = store]_vars

\* C23 witness: two requests for one key both missed, both called the
\* transport and both wrote, with different responses; the store holds one
\* of the two records
C23_Witness ==
  \E p, q \in Procs : \E s, t \in sets :
    /\ p # q
    /\ pc[p] = "done" /\ cache[p].mode = "miss" /\ calls[p] = 1
    /\ pc[q] = "done" /\ cache[q].mode = "miss" /\ calls[q] = 1
    /\ cache[p].key = cache[q].key
    /\ s.set.owner = p /\ t.set.owner = q /\ s.set.value # t.set.value
    /\ setErr[p] = "nil" /\ setErr[q] = "nil"
    /\ store[cache[p].key].val = t.set.value

C25_NilEntryPanics ==
  (fx.op = "compose" /\ fx.done)
    => /\ IF \E i \in 1..Len(fx.mws) : fx.mws[i] = NilMiddleware
          THEN fx.out = [panic |-> TRUE]
          ELSE /\ ~fx.out.panic
               /\ fx.out.client.Transport = fx.mws \o DefaultTransport
       /\ \A p \in Procs : pc[p] = "idle" /\ calls[p] = 0

\* C25 witness: the list cache, nil, breaker made the construction panic
C25_Witness ==
  /\ fx.op = "compose" /\ fx.done
  /\ fx.mws = <<"cache", NilMiddleware, "breaker">>
  /\ fx.out = [panic |-> TRUE]

\* C26: the map stored under forwardedHeaders holds x-origin-app with the
\* value appName, and every listed header that is present in the request
C26_OriginAppAlways ==
  (fx.op = "forward" /\ fx.done)
    => LET m == fx.out.forwardedHeaders
           list == IF Len(fx.forwardHeaders) = 0 THEN defaultForwardHeaders
                   ELSE fx.forwardHeaders
       IN  /\ "x-origin-app" \in DOMAIN m
           /\ m["x-origin-app"] = fx.appName
           /\ \A i \in 1..Len(list) :
                 CtxGet(fx.request, list[i]) # ""
                   => /\ list[i] \in DOMAIN m
                      /\ list[i] = "x-origin-app"
                           \/ m[list[i]] = CtxGet(fx.request, list[i])

C28_StatusBecomesError ==
  [][\A p \in Procs :
       /\ (LeavesBreaker(p) /\ err[p] = NoErr
              /\ (resp[p].code >= 500 \/ resp[p].code = 429))
            => /\ resp'[p] = NoResp
               /\ err'[p] = HTTPStatusError(resp[p].code)
       /\ (LeavesCache(p) /\ pc[p] = "out" /\ cache[p].mode = "miss"
              /\ err[p] # NoErr /\ err[p].kind = "http-status")
            => /\ resp'[p] = NoResp
               /\ err'[p] = Wrapped("error executing request", err[p])
               /\ UNCHANGED <<store, pending, sets>>
       /\ (pc'[p] = "done" /\ resp'[p] # NoResp
              /\ \E i \in 1..Len(middlewares) : middlewares[i] = "breaker")
            => resp'[p].code < 500 /\ resp'[p].code # 429]_vars

\* C28 witness: behind cache and breaker a miss answered 429 reached the
\* caller as the wrapped HTTPStatusError, with nothing written
C28_Witness ==
  \E p \in Procs :
    /\ middlewares = <<"cache", "breaker">>
    /\ pc[p] = "done" /\ cache[p].mode = "miss" /\ calls[p] = 1
    /\ resp[p] = NoResp
    /\ err[p] = Wrapped("error executing request", HTTPStatusError(429))
    /\ sets = {} /\ pending = {}

====
